---- MODULE Spec2Model ----
(***************************************************************************)
(* Model of src/docx_ingest.py: one command-line invocation that reads a   *)
(* DOCX deed, keeps its non-blank paragraphs, wraps the text with the      *)
(* audit prompt in a two-key payload, serializes it as JSON and writes it  *)
(* to a file or to standard output.                                        *)
(*                                                                         *)
(* A Python str is a sequence of characters; each character is a TLA+      *)
(* string used as an atom ("a", "\n", "U+2014", ...).                      *)
(***************************************************************************)
EXTENDS Integers, Sequences, FiniteSets, TLC

VARIABLES pc, argv, paragraphs, payload, output, fileBefore, outFile, stdout, stderr, exitCode, writeLog

vars == <<pc, argv, paragraphs, payload, output, fileBefore, outFile, stdout, stderr, exitCode, writeLog>>

(***************************************************************************)
(* Bounds of the model.                                                    *)
(***************************************************************************)
\* The most paragraphs a modelled document has.
MaxParas == 3

\* The most characters the paragraphs of a modelled document have in all.
MaxDocChars == 2

(***************************************************************************)
(* Characters.                                                             *)
(***************************************************************************)
NL == "\n"

TAB == "\t"

QUOTE == "\""

BACKSLASH == "\\"

EMDASH == "U+2014"

\* The characters a paragraph of the modelled documents is made of: a
\* letter, a space, a line break (python-docx renders <w:br/> as "\n" in
\* Paragraph.text), a double quote and a backslash.
ParaChars == {"a", " ", NL, QUOTE, BACKSLASH}

\* What str.strip() with no argument removes.
Whitespace == {" ", TAB, NL, "\r", "\f"}

\* The compiled-in prompt, abridged: like the original it has ASCII text,
\* non-ASCII characters and line feeds, ends with a line feed, and has no
\* double quote and no backslash.
SYSTEM_PROMPT == <<"S", EMDASH, NL, "P", NL>>

(***************************************************************************)
(* Pure helpers of the Python runtime, as the code uses them.              *)
(***************************************************************************)
RECURSIVE LStrip(_)
LStrip(s) ==
    IF s # <<>> /\ Head(s) \in Whitespace THEN LStrip(Tail(s)) ELSE s

RECURSIVE RStrip(_)
RStrip(s) ==
    IF s # <<>> /\ s[Len(s)] \in Whitespace
    THEN RStrip(SubSeq(s, 1, Len(s) - 1))
    ELSE s

\* Variant: strip(" "), which removes spaces only.
RECURSIVE StripSpacesOnly(_)
StripSpacesOnly(s) ==
    IF s # <<>> /\ Head(s) = " " THEN StripSpacesOnly(Tail(s))
    ELSE IF s # <<>> /\ s[Len(s)] = " " THEN StripSpacesOnly(SubSeq(s, 1, Len(s) - 1))
    ELSE s

\* str.strip(): the string without its leading and trailing whitespace.
Strip(s) == RStrip(LStrip(s))

\* Truth value of a str: non-empty.
Truthy(s) == s # <<>>

\* Variant: the kept lines are yielded stripped.
KeptLinesStripped(lines) ==
    LET kept == SelectSeq(lines, LAMBDA line : Truthy(Strip(line)))
    IN  [i \in 1..Len(kept) |-> Strip(kept[i])]

\* The generator of line 169: the lines whose stripped form is non-empty,
\* each yielded as it is.
KeptLines(lines) == SelectSeq(lines, LAMBDA line : Truthy(Strip(line)))

\* Variant: the separator follows every item, the last one included.
RECURSIVE JoinTrailingSep(_, _)
JoinTrailingSep(sep, items) ==
    IF items = <<>> THEN <<>>
    ELSE items[1] \o sep \o JoinTrailingSep(sep, Tail(items))

\* sep.join(items)
RECURSIVE Join(_, _)
Join(sep, items) ==
    IF items = <<>> THEN <<>>
    ELSE IF Len(items) = 1 THEN items[1]
    ELSE items[1] \o sep \o Join(sep, Tail(items))

\* read_docx_text, given the paragraph texts Document(path) returned.
read_docx_text(paras) == Join(<<NL>>, KeptLines(paras))

\* build_payload: a dict keeps insertion order, so the payload is the
\* sequence of its (key, value) items.
KEY_SYSTEM_PROMPT == <<"s", "y", "s", "t", "e", "m", "_", "p", "r", "o", "m", "p", "t">>

KEY_DEED_TEXT == <<"d", "e", "e", "d", "_", "t", "e", "x", "t">>

\* Variant: the two items in the other order.
build_payload_swapped(paras) ==
    << <<KEY_DEED_TEXT, read_docx_text(paras)>>,
       <<KEY_SYSTEM_PROMPT, SYSTEM_PROMPT>> >>

build_payload(paras) ==
    << <<KEY_SYSTEM_PROMPT, SYSTEM_PROMPT>>,
       <<KEY_DEED_TEXT, read_docx_text(paras)>> >>

(***************************************************************************)
(* json.dumps(payload, ensure_ascii=False, indent=2)                       *)
(***************************************************************************)
\* json.encoder.ESCAPE_DCT for the characters of the model; with
\* ensure_ascii=False every other character is emitted as it is.
\* Variant: the backslash is not escaped.
EscapeCharNoBackslash(c) ==
    CASE c = QUOTE -> <<BACKSLASH, QUOTE>>
      [] c = NL -> <<BACKSLASH, "n">>
      [] c = TAB -> <<BACKSLASH, "t">>
      [] c = "\r" -> <<BACKSLASH, "r">>
      [] c = "\f" -> <<BACKSLASH, "f">>
      [] OTHER -> <<c>>

EscapeChar(c) ==
    CASE c = QUOTE -> <<BACKSLASH, QUOTE>>
      [] c = BACKSLASH -> <<BACKSLASH, BACKSLASH>>
      [] c = NL -> <<BACKSLASH, "n">>
      [] c = TAB -> <<BACKSLASH, "t">>
      [] c = "\r" -> <<BACKSLASH, "r">>
      [] c = "\f" -> <<BACKSLASH, "f">>
      [] OTHER -> <<c>>

\* The escaped characters, in order (computed by halves).
RECURSIVE EscapeBody(_)
EscapeBody(s) ==
    IF s = <<>> THEN <<>>
    ELSE IF Len(s) = 1 THEN EscapeChar(s[1])
    ELSE EscapeBody(SubSeq(s, 1, Len(s) \div 2)) \o EscapeBody(SubSeq(s, Len(s) \div 2 + 1, Len(s)))

\* py_encode_basestring: the escaped text between double quotes.
EncodeString(s) == <<QUOTE>> \o EscapeBody(s) \o <<QUOTE>>

Indent == <<" ", " ">>

EncodeItem(item) == Indent \o EncodeString(item[1]) \o <<":", " ">> \o EncodeString(item[2])

RECURSIVE EncodeItems(_)
EncodeItems(items) ==
    IF Len(items) = 1 THEN EncodeItem(items[1])
    ELSE EncodeItem(items[1]) \o <<",", NL>> \o EncodeItems(Tail(items))

json_dumps(items) ==
    IF items = <<>> THEN <<"{", "}">>
    ELSE <<"{", NL>> \o EncodeItems(items) \o <<NL, "}">>

(***************************************************************************)
(* Text encodings.                                                         *)
(***************************************************************************)
NonAscii == {EMDASH}

\* The UTF-8 bytes of one character: an ASCII character is one byte,
\* written as the character; U+2014 is E2 80 94.
Utf8Char(c) == IF c = EMDASH THEN <<"E2", "80", "94">> ELSE <<c>>

\* str.encode("utf-8"): the bytes of the characters, in order (computed by
\* halves).
RECURSIVE Utf8Encode(_)
Utf8Encode(s) ==
    IF s = <<>> THEN <<>>
    ELSE IF Len(s) = 1 THEN Utf8Char(s[1])
    ELSE Utf8Encode(SubSeq(s, 1, Len(s) \div 2)) \o Utf8Encode(SubSeq(s, Len(s) \div 2 + 1, Len(s)))

\* The encodings standard output may have: UTF-8, or a legacy one with no
\* code for the prompt's non-ASCII characters.
StdoutEncodings == {"utf-8", "ascii"}

CanEncode(s, enc) == enc = "utf-8" \/ \A i \in 1..Len(s) : s[i] \notin NonAscii

(***************************************************************************)
(* The environment of one invocation.                                      *)
(***************************************************************************)
SeqsUpTo(S, n) == UNION {[1..k -> S] : k \in 0..n}

\* The paragraph sequences of at most k paragraphs and n characters in all.
RECURSIVE DocsOf(_, _)
DocsOf(k, n) ==
    IF k = 0 THEN {<<>>}
    ELSE {<<>>} \cup UNION {{<<p>> \o d : d \in DocsOf(k - 1, n - Len(p))} :
                              p \in SeqsUpTo(ParaChars, n)}

\* What Document(path).paragraphs can hold for a valid document.
Docs == DocsOf(MaxParas, MaxDocChars)

\* Why Document(path) raises.
OpenErrors == {"PackageNotFoundError", "BadZipFile"}

NoFile == [exists |-> FALSE, content |-> <<>>]

OldFile == [exists |-> TRUE, content |-> <<"o", "l", "d">>]

HelpText == <<"u", "s", "a", "g", "e">>

ExitOk == 0

ExitError == 1

ExitUsage == 2

Running == -1

\* Where a write that fails partway can stop: before the first byte or
\* halfway through the data.
CutPoints(data) == {n \in {0, Len(data) \div 2} : n < Len(data)}

(***************************************************************************)
(* The invocation.                                                         *)
(***************************************************************************)
Init ==
    /\ pc = "start"
    /\ argv \in [help : BOOLEAN, docx_path : BOOLEAN, output : BOOLEAN]
    /\ fileBefore \in {NoFile, OldFile}
    /\ outFile = fileBefore
    /\ paragraphs = <<>>
    /\ payload = <<>>
    /\ output = <<>>
    /\ stdout = <<>>
    /\ stderr = "none"
    /\ exitCode = Running
    /\ writeLog = <<>>

\* Variant: the exception is caught and reported, and the process exits 0.
RaiseSwallowed(exc) ==
    /\ pc' = "done"
    /\ stderr' = exc
    /\ exitCode' = ExitOk

\* An uncaught exception: traceback on standard error, exit status 1.
Raise(exc) ==
    /\ pc' = "done"
    /\ stderr' = exc
    /\ exitCode' = ExitError

\* parse_args with -h/--help: argparse prints the help and exits 0.
ParseArgsHelp ==
    /\ pc = "start"
    /\ argv.help
    /\ pc' = "done"
    /\ stdout' = HelpText
    /\ writeLog' = Append(writeLog, "stdout")
    /\ exitCode' = ExitOk
    /\ UNCHANGED <<argv, paragraphs, payload, output, fileBefore, outFile, stderr>>

\* parse_args without the required docx_path: usage error, exit 2.
ParseArgsError ==
    /\ pc = "start"
    /\ ~argv.help
    /\ ~argv.docx_path
    /\ pc' = "done"
    /\ stderr' = "usage"
    /\ exitCode' = ExitUsage
    /\ UNCHANGED <<argv, paragraphs, payload, output, fileBefore, outFile, stdout, writeLog>>

ParseArgsOk ==
    /\ pc = "start"
    /\ ~argv.help
    /\ argv.docx_path
    /\ pc' = "parsed"
    /\ UNCHANGED <<argv, paragraphs, payload, output, fileBefore, outFile, stdout, stderr, exitCode, writeLog>>

\* Variant: the output file is opened for writing before the document is.
BuildPayloadFailAfterOpen ==
    /\ pc = "parsed"
    /\ \E exc \in OpenErrors : Raise(exc)
    /\ outFile' = IF argv.output THEN [exists |-> TRUE, content |-> <<>>] ELSE outFile
    /\ UNCHANGED <<argv, paragraphs, payload, output, fileBefore, stdout, writeLog>>

\* build_payload on a path Document() cannot open.
BuildPayloadFail ==
    /\ pc = "parsed"
    /\ \E exc \in OpenErrors : Raise(exc)
    /\ UNCHANGED <<argv, paragraphs, payload, output, fileBefore, outFile, stdout, writeLog>>

\* build_payload on a valid document.
BuildPayloadOk ==
    /\ pc = "parsed"
    /\ \E doc \in Docs :
        /\ paragraphs' = doc
        /\ payload' = build_payload(doc)
    /\ pc' = "built"
    /\ UNCHANGED <<argv, output, fileBefore, outFile, stdout, stderr, exitCode, writeLog>>

Serialize ==
    /\ pc = "built"
    /\ output' = json_dumps(payload)
    /\ pc' = "serialized"
    /\ UNCHANGED <<argv, paragraphs, payload, fileBefore, outFile, stdout, stderr, exitCode, writeLog>>

\* write_text: open(path, "w") fails; the file system is left as it was.
OpenOutputFail ==
    /\ pc = "serialized"
    /\ argv.output
    /\ Raise("OSError")
    /\ UNCHANGED <<argv, paragraphs, payload, output, fileBefore, outFile, stdout, writeLog>>

\* Variant: the file is opened in append mode.
OpenOutputAppend ==
    /\ pc = "serialized"
    /\ argv.output
    /\ outFile' = [exists |-> TRUE, content |-> outFile.content]
    /\ writeLog' = Append(writeLog, "file")
    /\ pc' = "opened"
    /\ UNCHANGED <<argv, paragraphs, payload, output, fileBefore, stdout, stderr, exitCode>>

\* write_text: open(path, "w") creates the file or truncates it.
OpenOutputOk ==
    /\ pc = "serialized"
    /\ argv.output
    /\ outFile' = [exists |-> TRUE, content |-> <<>>]
    /\ writeLog' = Append(writeLog, "file")
    /\ pc' = "opened"
    /\ UNCHANGED <<argv, paragraphs, payload, output, fileBefore, stdout, stderr, exitCode>>

\* write_text: all the encoded text is written, the file is closed and main
\* returns.
WriteOutputOk ==
    /\ pc = "opened"
    /\ outFile' = [exists |-> TRUE, content |-> outFile.content \o Utf8Encode(output)]
    /\ pc' = "done"
    /\ exitCode' = ExitOk
    /\ UNCHANGED <<argv, paragraphs, payload, output, fileBefore, stdout, stderr, writeLog>>

\* write_text: the write or the flush on close raises (disk full, quota,
\* I/O error) after part of the bytes reached the file.
WriteOutputFail ==
    /\ pc = "opened"
    /\ \E n \in CutPoints(Utf8Encode(output)) :
        outFile' = [exists |-> TRUE,
                    content |-> outFile.content \o SubSeq(Utf8Encode(output), 1, n)]
    /\ Raise("OSError")
    /\ UNCHANGED <<argv, paragraphs, payload, output, fileBefore, stdout, writeLog>>

\* Variant: sys.stdout.write(output), without the line feed print adds.
PrintOutputNoNewline ==
    /\ pc = "serialized"
    /\ ~argv.output
    /\ \E enc \in StdoutEncodings : CanEncode(output, enc)
    /\ stdout' = stdout \o output
    /\ writeLog' = Append(writeLog, "stdout")
    /\ pc' = "done"
    /\ exitCode' = ExitOk
    /\ UNCHANGED <<argv, paragraphs, payload, output, fileBefore, outFile, stderr>>

\* print(output) on a standard output that can encode the text.
PrintOutputOk ==
    /\ pc = "serialized"
    /\ ~argv.output
    /\ \E enc \in StdoutEncodings : CanEncode(output \o <<NL>>, enc)
    /\ stdout' = stdout \o output \o <<NL>>
    /\ writeLog' = Append(writeLog, "stdout")
    /\ pc' = "done"
    /\ exitCode' = ExitOk
    /\ UNCHANGED <<argv, paragraphs, payload, output, fileBefore, outFile, stderr>>

\* print(output) on a standard output that cannot encode the text.
PrintOutputFail ==
    /\ pc = "serialized"
    /\ ~argv.output
    /\ \E enc \in StdoutEncodings : ~CanEncode(output \o <<NL>>, enc)
    /\ Raise("UnicodeEncodeError")
    /\ UNCHANGED <<argv, paragraphs, payload, output, fileBefore, outFile, stdout, writeLog>>

Next ==
    \/ ParseArgsHelp
    \/ ParseArgsError
    \/ ParseArgsOk
    \/ BuildPayloadFail
    \/ BuildPayloadOk
    \/ Serialize
    \/ OpenOutputFail
    \/ OpenOutputOk
    \/ WriteOutputOk
    \/ WriteOutputFail
    \/ PrintOutputOk
    \/ PrintOutputFail

Spec == Init /\ [][Next]_vars

TypeOK ==
    /\ pc \in {"start", "parsed", "built", "serialized", "opened", "done"}
    /\ exitCode \in {Running, ExitOk, ExitError, ExitUsage}
    /\ (pc = "done") = (exitCode # Running)

(***************************************************************************)
(* Vocabulary of the properties.                                           *)
(***************************************************************************)
\* build_payload has returned.
HasPayload == payload # <<>>

\* build_payload has just returned; payload and paragraphs are not assigned
\* again.
Extracted == pc = "built" /\ HasPayload

\* The deed_text value of the payload.
DeedText == payload[2][2]

\* A paragraph with at least one non-whitespace character.
NonBlank(p) == \E i \in 1..Len(p) : p[i] \notin Whitespace

Survivors(paras) == SelectSeq(paras, NonBlank)

\* The concatenation of a sequence of strings, built from its end.
RECURSIVE Flatten(_)
Flatten(ss) ==
    IF ss = <<>> THEN <<>>
    ELSE Flatten(SubSeq(ss, 1, Len(ss) - 1)) \o ss[Len(ss)]

\* s1, "\n", s2, "\n", ..., sn
Interleaved(ss) ==
    [i \in 1..(2 * Len(ss) - 1) |-> IF i % 2 = 1 THEN ss[(i + 1) \div 2] ELSE <<NL>>]

ExpectedText(paras) ==
    IF Survivors(paras) = <<>> THEN <<>> ELSE Flatten(Interleaved(Survivors(paras)))

HasNL(s) == \E i \in 1..Len(s) : s[i] = NL

FirstNL(s) == CHOOSE i \in 1..Len(s) : s[i] = NL /\ \A j \in 1..(i - 1) : s[j] # NL

\* str.split("\n")
RECURSIVE SplitLines(_)
SplitLines(s) ==
    IF ~HasNL(s) THEN <<s>>
    ELSE <<SubSeq(s, 1, FirstNL(s) - 1)>> \o SplitLines(SubSeq(s, FirstNL(s) + 1, Len(s)))

(***************************************************************************)
(* C1. read_docx_text returns the paragraphs that have a non-whitespace    *)
(* character, in their order, each unchanged (not trimmed), with one "\n"  *)
(* between consecutive survivors and nothing for the blank ones.           *)
(***************************************************************************)
C1_SurvivorsJoined == Extracted => DeedText = ExpectedText(paragraphs)

\* A blank paragraph between two survivors has been dropped.
C1_Witness ==
    /\ Extracted
    /\ Len(paragraphs) = 3
    /\ NonBlank(paragraphs[1])
    /\ ~NonBlank(paragraphs[2])
    /\ NonBlank(paragraphs[3])
    /\ DeedText = paragraphs[1] \o <<NL>> \o paragraphs[3]

(***************************************************************************)
(* C8. As stated: splitting a non-empty result of read_docx_text on "\n"   *)
(* yields exactly the surviving paragraphs, one element each, in order.    *)
(***************************************************************************)
C8_SplitYieldsSurvivors ==
    (Extracted /\ DeedText # <<>>) => SplitLines(DeedText) = Survivors(paragraphs)

\* C8 as amended: the same, for documents none of whose surviving
\* paragraphs contains a line feed.
C8_SplitYieldsSurvivorsNoLineFeed ==
    (/\ Extracted
     /\ DeedText # <<>>
     /\ \A i \in 1..Len(paragraphs) : NonBlank(paragraphs[i]) => ~HasNL(paragraphs[i]))
    => SplitLines(DeedText) = Survivors(paragraphs)

\* Two survivors without line feeds around a dropped blank paragraph.
C8_Witness ==
    /\ Extracted
    /\ Len(paragraphs) = 3
    /\ Len(Survivors(paragraphs)) = 2
    /\ ~NonBlank(paragraphs[2])
    /\ \A i \in 1..Len(paragraphs) : ~HasNL(paragraphs[i])
    /\ SplitLines(DeedText) = <<paragraphs[1], paragraphs[3]>>

(***************************************************************************)
(* C9. A document with no paragraphs, or only empty and whitespace-only    *)
(* ones, gives the empty string and a two-key payload whose deed_text is   *)
(* ""; when the invocation then ends with status 0, what it emitted is     *)
(* that payload's JSON text.                                               *)
(***************************************************************************)
AllBlank(paras) == \A i \in 1..Len(paras) : ~NonBlank(paras[i])

EmptyDeedPayload == << <<KEY_SYSTEM_PROMPT, <<"S", EMDASH, NL, "P", NL>> >>, <<KEY_DEED_TEXT, <<>> >> >>

EmptyDeedJson ==
    <<"{", NL, " ", " ", QUOTE>> \o KEY_SYSTEM_PROMPT
    \o <<QUOTE, ":", " ", QUOTE, "S", EMDASH, BACKSLASH, "n", "P", BACKSLASH, "n", QUOTE, ",", NL>>
    \o <<" ", " ", QUOTE>> \o KEY_DEED_TEXT \o <<QUOTE, ":", " ", QUOTE, QUOTE, NL, "}">>

EmptyDeedJsonBytes ==
    <<"{", NL, " ", " ", QUOTE>> \o KEY_SYSTEM_PROMPT
    \o <<QUOTE, ":", " ", QUOTE, "S", "E2", "80", "94", BACKSLASH, "n", "P", BACKSLASH, "n", QUOTE, ",", NL>>
    \o <<" ", " ", QUOTE>> \o KEY_DEED_TEXT \o <<QUOTE, ":", " ", QUOTE, QUOTE, NL, "}">>

C9_BlankDocument ==
    (HasPayload /\ AllBlank(paragraphs)) =>
        /\ DeedText = <<>>
        /\ payload = EmptyDeedPayload
        /\ pc \in {"serialized", "opened", "done"} => output = EmptyDeedJson
        /\ (pc = "done" /\ exitCode = ExitOk) =>
              IF argv.output
              THEN outFile = [exists |-> TRUE, content |-> EmptyDeedJsonBytes]
              ELSE stdout = EmptyDeedJson \o <<NL>>

\* A document of whitespace-only paragraphs was ingested and the
\* invocation ended with status 0.
C9_Witness ==
    /\ HasPayload
    /\ Len(paragraphs) = 2
    /\ AllBlank(paragraphs)
    /\ paragraphs[1] # <<>>
    /\ pc = "done"
    /\ exitCode = ExitOk
    /\ stdout = EmptyDeedJson \o <<NL>>

(***************************************************************************)
(* What a reader of the emitted text gets back: a UTF-8 decoder and a      *)
(* JSON parser for objects with string values (json.loads).                *)
(***************************************************************************)
Bad == [ok |-> FALSE, val |-> <<>>, next |-> 0]

\* The bytes are well-formed UTF-8: E2 80 94 come together only.
Utf8WellFormed(b) ==
    \A i \in 1..Len(b) :
        /\ b[i] = "E2" => (i + 2 <= Len(b) /\ b[i + 1] = "80" /\ b[i + 2] = "94")
        /\ b[i] = "80" => (i > 1 /\ b[i - 1] = "E2")
        /\ b[i] = "94" => (i > 2 /\ b[i - 1] = "80" /\ b[i - 2] = "E2")

\* The characters the bytes denote: a lead byte E2 stands for U+2014 and
\* its continuation bytes for nothing more.
Utf8Decode(b) ==
    [ok |-> Utf8WellFormed(b),
     val |-> SelectSeq([i \in 1..Len(b) |-> IF b[i] = "E2" THEN EMDASH ELSE b[i]],
                       LAMBDA c : c \notin {"80", "94"})]

JsonWs == {" ", NL, TAB, "\r"}

ControlChars == {NL, TAB, "\r", "\f"}

EscapeLetters == {"n", "t", "r", "f", QUOTE, BACKSLASH, "/"}

Unescape(c) ==
    CASE c = "n" -> NL
      [] c = "t" -> TAB
      [] c = "r" -> "\r"
      [] c = "f" -> "\f"
      [] OTHER -> c

RECURSIVE SkipWs(_, _)
SkipWs(t, i) == IF i <= Len(t) /\ t[i] \in JsonWs THEN SkipWs(t, i + 1) ELSE i

\* In a string body that starts at a, position j follows an odd number of
\* consecutive backslashes: the character at j is escaped.
Escaped(t, a, j) ==
    LET starts == {k \in a..j : \A m \in k..(j - 1) : t[m] = BACKSLASH}
        first == CHOOSE k \in starts : \A k2 \in starts : k <= k2
    IN  (j - first) % 2 = 1

\* The string that opens with the double quote at i: its value and the
\* position after its closing quote. Not ok when there is no opening or
\* closing quote, an unknown escape, or a raw control character.
ParseString(t, i) ==
    IF i > Len(t) THEN Bad
    ELSE IF t[i] # QUOTE THEN Bad
    ELSE LET a == i + 1
             closers == {j \in a..Len(t) : t[j] = QUOTE /\ ~Escaped(t, a, j)}
         IN  IF closers = {} THEN Bad
             ELSE LET b == CHOOSE j \in closers : \A j2 \in closers : j <= j2
                      body == [n \in 1..(b - a) |->
                                  [c |-> t[a + n - 1],
                                   esc |-> Escaped(t, a, a + n - 1)]]
                      valid == \A n \in 1..(b - a) :
                                  IF body[n].esc THEN body[n].c \in EscapeLetters
                                  ELSE body[n].c \notin ControlChars
                      kept == SelectSeq(body, LAMBDA x : x.esc \/ x.c # BACKSLASH)
                  IN  IF ~valid THEN Bad
                      ELSE [ok |-> TRUE,
                            val |-> [n \in 1..Len(kept) |->
                                        IF kept[n].esc THEN Unescape(kept[n].c) ELSE kept[n].c],
                            next |-> b + 1]

RECURSIVE ParseMembers(_, _, _)
ParseMembers(t, i, acc) ==
    LET k == ParseString(t, SkipWs(t, i))
        c == SkipWs(t, k.next)
        v == ParseString(t, SkipWs(t, c + 1))
        e == SkipWs(t, v.next)
    IN  IF ~k.ok \/ c > Len(t) THEN Bad
        ELSE IF t[c] # ":" \/ ~v.ok \/ e > Len(t) THEN Bad
        ELSE IF t[e] = "," THEN ParseMembers(t, e + 1, Append(acc, <<k.val, v.val>>))
        ELSE IF t[e] = "}" THEN [ok |-> TRUE, val |-> Append(acc, <<k.val, v.val>>), next |-> e + 1]
        ELSE Bad

\* The items of the object the text denotes, in document order; not ok
\* when the text is not one JSON object with string values.
JsonLoads(t) ==
    LET s == SkipWs(t, 1)
        a == SkipWs(t, s + 1)
        m == ParseMembers(t, s + 1, <<>>)
    IN  IF s > Len(t) THEN Bad
        ELSE IF t[s] # "{" THEN Bad
        ELSE IF a <= Len(t) /\ t[a] = "}"
             THEN (IF SkipWs(t, a + 1) = Len(t) + 1 THEN [ok |-> TRUE, val |-> <<>>, next |-> a + 1] ELSE Bad)
        ELSE IF m.ok /\ SkipWs(t, m.next) = Len(t) + 1 THEN m
        ELSE Bad

\* The mapping a sequence of items denotes.
AsMapping(items) == {items[i] : i \in 1..Len(items)}

\* json.dumps has just returned; output is not assigned again.
Serialized == pc = "serialized" /\ output # <<>>

(***************************************************************************)
(* C10. Round trip: parsing the JSON text that serialization produced for  *)
(* a payload of build_payload yields a mapping equal to the payload, with  *)
(* system_prompt and deed_text present and unchanged, non-ASCII characters *)
(* and embedded line feeds included.                                       *)
(***************************************************************************)
C10_RoundTrip ==
    Serialized =>
        LET parsed == JsonLoads(output)
        IN  /\ parsed.ok
            /\ AsMapping(parsed.val) = AsMapping(payload)
            /\ Len(parsed.val) = 2
            /\ \E i \in 1..2 : parsed.val[i] = <<KEY_SYSTEM_PROMPT, <<"S", EMDASH, NL, "P", NL>> >>
            /\ \E i \in 1..2 : parsed.val[i] = <<KEY_DEED_TEXT, ExpectedText(paragraphs)>>

\* A deed text with a double quote, a backslash and an embedded line feed
\* came back from the JSON text.
C10_Witness ==
    /\ Serialized
    /\ DeedText = <<QUOTE, NL, BACKSLASH>>
    /\ JsonLoads(output).val[2][2] = <<QUOTE, NL, BACKSLASH>>
    /\ JsonLoads(output).val[1][2][2] = EMDASH

(***************************************************************************)
(* C6. The payload of build_payload, and its serialized form, has exactly  *)
(* the keys system_prompt and deed_text, in that order; system_prompt is   *)
(* the compiled-in constant whatever the document holds, and deed_text is  *)
(* the text read from the document.                                        *)
(***************************************************************************)
C6_TwoKeysInOrder ==
    /\ Extracted =>
        /\ Len(payload) = 2
        /\ payload[1][1] = KEY_SYSTEM_PROMPT
        /\ payload[1][2] = <<"S", EMDASH, NL, "P", NL>>
        /\ payload[2][1] = KEY_DEED_TEXT
        /\ payload[2][2] = ExpectedText(paragraphs)
    /\ Serialized =>
        LET parsed == JsonLoads(output)
        IN  /\ Len(parsed.val) = 2
            /\ parsed.val[1] = <<KEY_SYSTEM_PROMPT, <<"S", EMDASH, NL, "P", NL>> >>
            /\ parsed.val[2][1] = KEY_DEED_TEXT

\* A non-empty document was serialized with the two keys in order.
C6_Witness ==
    /\ Serialized
    /\ DeedText # <<>>
    /\ JsonLoads(output).val[1][1] = KEY_SYSTEM_PROMPT
    /\ JsonLoads(output).val[2][1] = KEY_DEED_TEXT

(***************************************************************************)
(* Outcomes of an invocation.                                              *)
(***************************************************************************)
Done == pc = "done"

\* Extraction failed: Document(path) raised.
ExtractionFailed == Done /\ stderr \in OpenErrors

\* Writing the output file failed: write_text raised.
FileWriteFailed == Done /\ argv.output /\ stderr = "OSError"

\* main ran to its end: arguments parsed, payload built and serialized,
\* and the write returned.
Succeeded == Done /\ stderr = "none" /\ ~argv.help /\ output # <<>>

(***************************************************************************)
(* C2. An invocation that fails during extraction ends with a non-zero     *)
(* exit code, writes nothing to standard output, and leaves the file at    *)
(* the --output path as it was: not created, not overwritten.              *)
(***************************************************************************)
C2_ExtractionFailureLeavesNoOutput ==
    ExtractionFailed =>
        /\ exitCode # ExitOk
        /\ stdout = <<>>
        /\ outFile = fileBefore
        /\ writeLog = <<>>

\* Extraction failed in an invocation given --output, with a file already
\* at that path.
C2_Witness ==
    /\ ExtractionFailed
    /\ argv.output
    /\ fileBefore = OldFile
    /\ outFile = OldFile

(***************************************************************************)
(* C3. As stated: an invocation that fails while writing the output file   *)
(* ends with a non-zero exit code and leaves no partially written file at  *)
(* the destination (no truncated file, no proper prefix of the text).      *)
(***************************************************************************)
IsProperPrefix(a, b) == Len(a) < Len(b) /\ a = SubSeq(b, 1, Len(a))

PartialFile == outFile.exists /\ IsProperPrefix(outFile.content, Utf8Encode(output))

C3_WriteFailureLeavesNoPartialFile ==
    FileWriteFailed => (exitCode # ExitOk /\ ~PartialFile)

(***************************************************************************)
(* C4. After a successful invocation with -o/--output the destination      *)
(* file holds exactly the serialized JSON text of the payload, whatever it *)
(* held before, and nothing was written to standard output.                *)
(***************************************************************************)
C4_FileHoldsExactlyTheJson ==
    (Succeeded /\ argv.output) =>
        LET decoded == Utf8Decode(outFile.content)
        IN  /\ outFile.exists
            /\ decoded.ok
            /\ decoded.val = output
            /\ JsonLoads(decoded.val).val = payload
            /\ stdout = <<>>

\* A file with earlier content was replaced by the JSON text.
C4_Witness ==
    /\ Succeeded
    /\ argv.output
    /\ fileBefore = OldFile
    /\ outFile.content # <<>>
    /\ Utf8Decode(outFile.content).val = output
    /\ DeedText # <<>>

(***************************************************************************)
(* C5. After a successful invocation without a destination path, standard *)
(* output holds exactly the serialized JSON text and one trailing line     *)
(* feed; no file was created or modified, and the invocation made exactly  *)
(* one write, to standard output.                                          *)
(***************************************************************************)
C5_StdoutHoldsJsonAndNewline ==
    (Succeeded /\ ~argv.output) =>
        /\ Len(stdout) = Len(output) + 1
        /\ SubSeq(stdout, 1, Len(output)) = output
        /\ stdout[Len(stdout)] = NL
        /\ JsonLoads(SubSeq(stdout, 1, Len(stdout) - 1)).val = payload
        /\ outFile = fileBefore
        /\ writeLog = <<"stdout">>

\* The JSON text of a non-empty deed was printed while no file existed.
C5_Witness ==
    /\ Succeeded
    /\ ~argv.output
    /\ fileBefore = NoFile
    /\ ~outFile.exists
    /\ DeedText # <<>>
    /\ stdout = output \o <<NL>>

(***************************************************************************)
(* C7. As stated: the exit code is 0 exactly when the invocation succeeded *)
(* (arguments parsed, extraction succeeded, output written), and every     *)
(* fatal error ends the invocation with a non-zero exit code.              *)
(***************************************************************************)
ArgumentsParsed == ~argv.help /\ argv.docx_path

OutputWritten ==
    IF argv.output
    THEN outFile.exists /\ Utf8Decode(outFile.content).val = output
    ELSE stdout = output \o <<NL>>

InvocationSucceeded == ArgumentsParsed /\ HasPayload /\ output # <<>> /\ OutputWritten

FatalError == stderr # "none"

C7_ExitZeroIffSucceeded ==
    Done =>
        /\ (exitCode = ExitOk) <=> InvocationSucceeded
        /\ FatalError => exitCode # ExitOk

\* C7 as amended: the exit code is 0 exactly when the invocation succeeded
\* or -h/--help was given (argparse then prints the help and exits 0
\* without extracting or writing the payload); every fatal error ends the
\* invocation with a non-zero exit code.
C7_ExitZeroIffSucceededOrHelp ==
    Done =>
        /\ (exitCode = ExitOk) <=> (InvocationSucceeded \/ argv.help)
        /\ FatalError => exitCode # ExitOk
        /\ (~argv.help /\ ~argv.docx_path) => exitCode # ExitOk

\* Both directions happen: an invocation that succeeded, with status 0.
C7_Witness ==
    /\ Done
    /\ InvocationSucceeded
    /\ exitCode = ExitOk
    /\ argv.output
    /\ DeedText # <<>>

====
